---- MODULE Spec2Model ----
(***************************************************************************)
(* A model of ChartDrawer.py: the chart-of-nuclides drawer.                *)
(*                                                                         *)
(* Python lists are modelled as TLA+ sequences, so the Python index i of   *)
(* a list is the TLA+ index i + 1.  Strings the program looks into (decay  *)
(* mode codes, branching values, XML attributes) are sequences of          *)
(* one-character strings, so that the regular expression, strip('#'),      *)
(* float() and int() are computed and not assumed.                         *)
(***************************************************************************)
EXTENDS Integers, Sequences, FiniteSets, TLC

VARIABLES pc, args, input, data, n_limits, z_limits, shape,
          n_magic, z_magic, idx, layers, stdout, exit_status, outfile,
          load_entered, nuclide, res

vars == <<pc, args, input, data, n_limits, z_limits, shape,
          n_magic, z_magic, idx, layers, stdout, exit_status, outfile,
          load_entered, nuclide, res>>

(***************************************************************************)
(* Bounds of the model.                                                    *)
(***************************************************************************)
\* Longest decay-mode list given to draw_nuclide on its own.
MaxModes == 4
\* Largest number of <nuclide> records in the input document.
MaxRecords == 2
\* Largest neutron number and largest proton number of a record.
MaxN == 3
MaxZ == 3

None == "None"
Unbound == "unbound"

(***************************************************************************)
(* Characters and the string functions the program uses.                   *)
(***************************************************************************)
Digits == {"0", "1", "2", "3", "4", "5", "6", "7", "8", "9"}

LowerLetters == {"a", "b", "c", "d", "e", "f", "g", "h", "i", "j", "k", "l", "m",
                 "n", "o", "p", "q", "r", "s", "t", "u", "v", "w", "x", "y", "z"}

DigitVal(c) ==
    CASE c = "0" -> 0 [] c = "1" -> 1 [] c = "2" -> 2 [] c = "3" -> 3
      [] c = "4" -> 4 [] c = "5" -> 5 [] c = "6" -> 6 [] c = "7" -> 7
      [] c = "8" -> 8 [] c = "9" -> 9

DigitChar(d) ==
    CASE d = 0 -> "0" [] d = 1 -> "1" [] d = 2 -> "2" [] d = 3 -> "3"
      [] d = 4 -> "4" [] d = 5 -> "5" [] d = 6 -> "6" [] d = 7 -> "7"
      [] d = 8 -> "8" [] d = 9 -> "9"

RECURSIVE DigitsValue(_)
\* The number a string of decimal digits denotes ("" denotes 0).
DigitsValue(s) ==
    IF s = <<>> THEN 0
    ELSE 10 * DigitsValue(SubSeq(s, 1, Len(s) - 1)) + DigitVal(s[Len(s)])

RECURSIVE Pow10(_)
Pow10(k) == IF k = 0 THEN 1 ELSE 10 * Pow10(k - 1)

RECURSIVE StripLeft(_, _)
StripLeft(s, c) ==
    IF s # <<>> /\ s[1] = c THEN StripLeft(Tail(s), c) ELSE s

RECURSIVE StripRight(_, _)
StripRight(s, c) ==
    IF s # <<>> /\ s[Len(s)] = c THEN StripRight(SubSeq(s, 1, Len(s) - 1), c) ELSE s

\* str.strip(c): every leading and every trailing c is removed.
Strip(s, c) == StripRight(StripLeft(s, c), c)

\* float(s) for strings made of digits, '.', '#' and '?': a decimal numeral
\* with at most one point and at least one digit is the rational num / den,
\* anything else raises ValueError.  The value is exact; for the numerals of
\* a few digits that the data base holds, comparing it with 5 and with 0
\* gives what comparing the float gives.
PyFloat(s) ==
    LET dots == {i \in 1..Len(s) : s[i] = "."}
        wellformed == /\ \A i \in 1..Len(s) : s[i] \in Digits \cup {"."}
                      /\ Cardinality(dots) <= 1
                      /\ \E i \in 1..Len(s) : s[i] \in Digits
        point == IF dots = {} THEN Len(s) + 1 ELSE CHOOSE i \in dots : TRUE
        whole == SubSeq(s, 1, point - 1)
        frac  == SubSeq(s, point + 1, Len(s))
    IN  IF wellformed
        THEN [ok |-> TRUE, num |-> DigitsValue(whole \o frac), den |-> Pow10(Len(frac))]
        ELSE [ok |-> FALSE, num |-> 0, den |-> 1]

\* int(s) for an XML attribute: a non-empty string of digits, or ValueError.
PyInt(s) ==
    IF s # <<>> /\ \A i \in 1..Len(s) : s[i] \in Digits
    THEN [ok |-> TRUE, val |-> DigitsValue(s)]
    ELSE [ok |-> FALSE, val |-> 0]

RECURSIVE IntToStr(_)
\* The decimal numeral of a natural number, as the input document writes it.
IntToStr(n) ==
    IF n < 10 THEN <<DigitChar(n)>>
    ELSE Append(IntToStr(n \div 10), DigitChar(n % 10))

(***************************************************************************)
(* Decay mode codes and colours.                                           *)
(***************************************************************************)
m_is  == <<"i", "s">>
m_a   == <<"a">>
m_bm  == <<"b", "-">>
m_2bm == <<"2", "b", "-">>
m_bp  == <<"b", "+">>
m_ec  == <<"e", "c">>
m_2ec == <<"2", "e", "c">>
m_sf  == <<"s", "f">>
m_p   == <<"p">>
m_2p  == <<"2", "p">>
m_n   == <<"n">>
m_2n  == <<"2", "n">>
m_it  == <<"i", "t">>
m_cluster == <<"c", "l", "u", "s", "t", "e", "r">>
m_unknown == <<"?">>
\* A cluster emission as the data base writes it: carbon-14.
m_14c == <<"1", "4", "c">>

COLORS ==
    (m_is :> "#000000") @@ (m_bm :> "#62aeff") @@ (m_2bm :> "#62aeff") @@
    (m_bp :> "#ff7e75") @@ (m_ec :> "#ff7e75") @@ (m_2ec :> "#ff7e75") @@
    (m_a :> "#fffe49") @@ (m_sf :> "#5cbc57") @@ (m_p :> "#ffa425") @@
    (m_2p :> "#ffa425") @@ (m_n :> "#9fd7ff") @@ (m_2n :> "#9fd7ff") @@
    (m_it :> "#ffffff") @@ (m_cluster :> "#a564cc") @@ (m_unknown :> "#cccccc")

SIZE_SHAPE == 30
SIZE_GAP == 2
SIZE_FIELD == SIZE_SHAPE + SIZE_GAP

MAGIC_NUMBERS == {2, 8, 20, 28, 50, 82, 126}

basic_decay_modes ==
    {m_is, m_a, m_bm, m_bp, m_ec, m_p, m_2p, m_sf, m_n, m_2n, m_2ec, m_2bm}

\* re.search(r'[0-9]{2}([a-z]+)$', mode) is not None
cluster_re(mode) ==
    \E k \in 1..Len(mode) :
        /\ k + 2 <= Len(mode)
        /\ mode[k] \in Digits
        /\ mode[k + 1] \in Digits
        /\ \A j \in (k + 2)..Len(mode) : mode[j] \in LowerLetters

(***************************************************************************)
(* draw_nuclide.  A nuclide is                                             *)
(*   [N, Z, decay_modes : Seq([mode, value]),                              *)
(*    half_life : [value, extrapolated]]                                   *)
(* and the display flags are [names, halflives, magic, numbers, unknown].  *)
(***************************************************************************)
Min(S) == CHOOSE x \in S : \A y \in S : x <= y
Max(S) == CHOOSE x \in S : \A y \in S : x >= y

\* first_basic as it would be if the scan kept the last basic mode it met.
last_basic(decay_modes, from) ==
    LET found == {i \in from..Len(decay_modes) : decay_modes[i].mode \in basic_decay_modes}
    IN  IF found = {} THEN 0 ELSE Max(found)

\* The lowest index >= from of a basic mode, 0 when there is none: the
\* for/else of lines 303-309.
first_basic(decay_modes, from) ==
    LET found == {i \in from..Len(decay_modes) : decay_modes[i].mode \in basic_decay_modes}
    IN  IF found = {} THEN 0 ELSE Min(found)

\* shows_unknown as it would be if the flag were not looked at.
shows_unknown_always(mode, unknown) == mode = m_unknown

\* Line 295: the unknown mode is drawn when the flag asks for it.
shows_unknown(mode, unknown) == mode = m_unknown /\ unknown

\* Lines 293-311: the primary colour, and the list as the function leaves it.
\* ret is "ok", "return" (the isotope is not drawn) or "IndexError"
\* (decay_modes[0] of an empty list).
resolve_primary(decay_modes, unknown) ==
    IF Len(decay_modes) = 0
    THEN [ret |-> "IndexError", decay_modes |-> decay_modes, primary_color |-> Unbound]
    ELSE IF decay_modes[1].mode \in basic_decay_modes
    THEN [ret |-> "ok", decay_modes |-> decay_modes,
          primary_color |-> COLORS[decay_modes[1].mode]]
    ELSE IF shows_unknown(decay_modes[1].mode, unknown)
    THEN [ret |-> "ok", decay_modes |-> decay_modes, primary_color |-> COLORS[m_unknown]]
    ELSE IF Len(decay_modes) > 1
    THEN LET i == first_basic(decay_modes, 2)
         IN  IF i = 0
             THEN [ret |-> "return", decay_modes |-> decay_modes, primary_color |-> Unbound]
             ELSE LET swapped == [decay_modes EXCEPT ![1] = decay_modes[i],
                                                     ![i] = decay_modes[1]]
                  IN  [ret |-> "ok", decay_modes |-> swapped,
                       primary_color |-> COLORS[swapped[1].mode]]
    ELSE [ret |-> "return", decay_modes |-> decay_modes, primary_color |-> Unbound]

\* Line 316: half_life['value'].find('unstable') >= 0, over the half-life
\* values of the model.
has_unstable(value) == value \in {"p-unstable", "n-unstable"}

\* secondary_size_of as it would be with >= 5.0 for > 5.0.
secondary_size_at_least_5(v, primary_color, old) ==
    IF v.num >= 5 * v.den /\ primary_color # COLORS[m_is] THEN "large"
    ELSE IF v.num > 0 THEN "small"
    ELSE old

\* Lines 334-337: the size a basic mode of branching v gives the secondary
\* marker; neither branch taken leaves the size as it was.
secondary_size_of(v, primary_color, old) ==
    IF v.num > 5 * v.den /\ primary_color # COLORS[m_is] THEN "large"
    ELSE IF v.num > 0 THEN "small"
    ELSE old

\* The state of the secondary scan before its first iteration (lines 326);
\* size_idx, color_idx: the list index the size and the colour were last
\* taken from (0: none).
secondary_start ==
    [size |-> None, color |-> Unbound, size_idx |-> 0, color_idx |-> 0]

\* Lines 330-344: one iteration of the secondary scan at index i.
secondary_step(decay_modes, primary_color, i, st) ==
    LET mode == decay_modes[i].mode IN
    IF mode \in basic_decay_modes
    THEN LET v == PyFloat(Strip(decay_modes[i].value, "#")) IN
         IF ~v.ok
         THEN [st |-> st, brk |-> FALSE]
         ELSE LET size == secondary_size_of(v, primary_color, st.size)
              IN  [st |-> [size |-> size, color |-> COLORS[mode],
                           size_idx |-> IF v.num > 0 THEN i ELSE st.size_idx,
                           color_idx |-> i],
                   brk |-> FALSE]
    ELSE IF cluster_re(mode)
    THEN [st |-> [size |-> "small", color |-> COLORS[m_cluster],
                  size_idx |-> i, color_idx |-> i],
          brk |-> TRUE]
    ELSE [st |-> st, brk |-> FALSE]

RECURSIVE secondary_scan(_, _, _, _)
\* Lines 329-344: for i in range(1, len(decay_modes)), from index i on.
secondary_scan(decay_modes, primary_color, i, st) ==
    IF i > Len(decay_modes) THEN st
    ELSE LET r == secondary_step(decay_modes, primary_color, i, st)
         IN  IF r.brk THEN r.st
             ELSE secondary_scan(decay_modes, primary_color, i + 1, r.st)

\* Lines 346-348: whether the tertiary scan runs.
tertiary_runs(decay_modes, primary_color, secondary_size) ==
    /\ Len(decay_modes) > 2
    /\ \/ secondary_size = "large"
       \/ secondary_size = "small" /\ primary_color = COLORS[m_is]

\* examined: the list indices the tertiary scan looked at.
tertiary_start == [size |-> None, color |-> Unbound, idx |-> 0, examined |-> {}]

\* tertiary_step as it would be if a ValueError ended the scan.
tertiary_step_stops_on_error(decay_modes, i, st) ==
    LET mode == decay_modes[i].mode
        seen == [st EXCEPT !.examined = @ \cup {i}]
    IN
    IF mode \in basic_decay_modes
    THEN LET v == PyFloat(Strip(decay_modes[i].value, "#")) IN
         IF v.ok /\ v.num > 0
         THEN [st |-> [seen EXCEPT !.size = "small", !.color = COLORS[mode], !.idx = i],
               brk |-> TRUE]
         ELSE [st |-> seen, brk |-> TRUE]
    ELSE IF cluster_re(mode)
    THEN [st |-> [seen EXCEPT !.size = "small", !.color = COLORS[m_cluster], !.idx = i],
          brk |-> TRUE]
    ELSE [st |-> seen, brk |-> FALSE]

\* Lines 350-364: one iteration of the tertiary scan at index i.
tertiary_step(decay_modes, i, st) ==
    LET mode == decay_modes[i].mode
        seen == [st EXCEPT !.examined = @ \cup {i}]
    IN
    IF mode \in basic_decay_modes
    THEN LET v == PyFloat(Strip(decay_modes[i].value, "#")) IN
         IF ~v.ok
         THEN [st |-> seen, brk |-> FALSE]
         ELSE IF v.num > 0
         THEN [st |-> [seen EXCEPT !.size = "small", !.color = COLORS[mode], !.idx = i],
               brk |-> TRUE]
         ELSE [st |-> seen, brk |-> TRUE]
    ELSE IF cluster_re(mode)
    THEN [st |-> [seen EXCEPT !.size = "small", !.color = COLORS[m_cluster], !.idx = i],
          brk |-> TRUE]
    ELSE [st |-> seen, brk |-> FALSE]

RECURSIVE tertiary_scan(_, _, _)
\* Lines 349-364: for i in range(2, len(decay_modes)), from index i on.
tertiary_scan(decay_modes, i, st) ==
    IF i > Len(decay_modes) THEN st
    ELSE LET r == tertiary_step(decay_modes, i, st)
         IN  IF r.brk THEN r.st ELSE tertiary_scan(decay_modes, i + 1, r.st)

\* Lines 370-377: the corner of a large secondary triangle.
large_corner(secondary_color, primary_color) ==
    IF secondary_color = COLORS[m_a] THEN "lt"
    ELSE IF /\ secondary_color = COLORS[m_bp]
            /\ primary_color # COLORS[m_a]
            /\ primary_color # COLORS[m_p] THEN "lt"
    ELSE "rb"

\* small_corner as it would be without the branch for the cluster colour.
small_corner_no_cluster(secondary_color, primary_color) ==
    IF secondary_color = COLORS[m_a] THEN "lt"
    ELSE IF /\ secondary_color = COLORS[m_bp]
            /\ primary_color # COLORS[m_a]
            /\ primary_color # COLORS[m_p] THEN "lt"
    ELSE "rb"

\* Lines 381-390: the corner of a small secondary triangle.
small_corner(secondary_color, primary_color) ==
    IF secondary_color = COLORS[m_a] THEN "lt"
    ELSE IF /\ secondary_color = COLORS[m_bp]
            /\ primary_color # COLORS[m_a]
            /\ primary_color # COLORS[m_p] THEN "lt"
    ELSE IF secondary_color = COLORS[m_cluster] THEN "rt"
    ELSE "rb"

\* Lines 395-404: the corner of the tertiary triangle.
tertiary_corner(tertiary_color, primary_color, secondary_color) ==
    IF tertiary_color = COLORS[m_a] THEN "lt"
    ELSE IF /\ tertiary_color = COLORS[m_bp]
            /\ primary_color # COLORS[m_a]
            /\ secondary_color # COLORS[m_a] THEN "lt"
    ELSE IF tertiary_color = COLORS[m_cluster] THEN "rt"
    ELSE "rb"

\* _draw_triangle draws the left-top triangle for 'lt' and the right-bottom
\* one for every other corner (lines 182-196).
triangle_drawn_corner(corner) == IF corner = "lt" THEN "lt" ELSE "rb"

\* _draw_small_triangle knows 'lt', 'rt' and the right-bottom default
\* (lines 214-235).
small_triangle_drawn_corner(corner) ==
    IF corner = "lt" THEN "lt" ELSE IF corner = "rt" THEN "rt" ELSE "rb"

no_layers == <<<<>>, <<>>, <<>>, <<>>>>

\* What draw_nuclide returns to the main loop when it draws nothing.
nothing_drawn(outcome, decay_modes, primary_color) ==
    [outcome |-> outcome, decay_modes |-> decay_modes,
     primary_color |-> primary_color,
     secondary |-> secondary_start, tertiary |-> tertiary_start,
     tertiary_ran |-> FALSE, elems |-> no_layers]

\* Lines 276-441.  elems[k] are the elements appended to layers[k-1], in
\* order; the text of a half-life is kept as the field it is taken from,
\* not formatted.  outcome is "drawn", "return" or "IndexError".
draw_nuclide(nuc, position, a) ==
    LET p == resolve_primary(nuc.decay_modes, a.unknown) IN
    IF p.ret # "ok" THEN nothing_drawn(p.ret, p.decay_modes, p.primary_color)
    ELSE IF has_unstable(nuc.half_life.value)
    THEN nothing_drawn("return", p.decay_modes, p.primary_color)
    ELSE
    LET modes == p.decay_modes
        primary_color == p.primary_color
        sec == IF Len(modes) > 1
               THEN secondary_scan(modes, primary_color, 2, secondary_start)
               ELSE secondary_start
        ran == Len(modes) > 1 /\ tertiary_runs(modes, primary_color, sec.size)
        ter == IF ran THEN tertiary_scan(modes, 3, tertiary_start) ELSE tertiary_start
        name == <<nuc.Z, nuc.N + nuc.Z>>
        rect == <<[tag |-> "rect", id |-> <<name, 0>>, fill |-> primary_color,
                   x |-> position[1], y |-> position[2]]>>
        sec_el ==
            IF sec.size = "large"
            THEN <<[tag |-> "polygon", id |-> <<name, 1>>, fill |-> sec.color,
                    size |-> "large", from |-> sec.color_idx,
                    corner |-> triangle_drawn_corner(large_corner(sec.color, primary_color))]>>
            ELSE IF sec.size = "small"
            THEN <<[tag |-> "polygon", id |-> <<name, 1>>, fill |-> sec.color,
                    size |-> "small", from |-> sec.color_idx,
                    corner |-> small_triangle_drawn_corner(
                                   small_corner(sec.color, primary_color))]>>
            ELSE <<>>
        ter_el ==
            IF ter.size = "small"
            THEN <<[tag |-> "polygon", id |-> <<name, 2>>, fill |-> ter.color,
                    size |-> "small", from |-> ter.idx,
                    corner |-> small_triangle_drawn_corner(
                                   tertiary_corner(ter.color, primary_color, sec.color))]>>
            ELSE <<>>
        name_el ==
            IF a.names THEN <<[tag |-> "text", role |-> "name", text |-> name]>> ELSE <<>>
        hl_el ==
            IF a.halflives /\ nuc.half_life.extrapolated # "True"
            THEN <<[tag |-> "text", role |-> "half_life",
                    text |-> IF primary_color # COLORS[m_is]
                             THEN <<nuc.half_life.value>>
                             ELSE modes[1].value]>>
            ELSE <<>>
    IN  [outcome |-> "drawn", decay_modes |-> modes, primary_color |-> primary_color,
         secondary |-> sec, tertiary |-> ter, tertiary_ran |-> ran,
         elems |-> <<rect, sec_el \o ter_el, <<>>, name_el \o hl_el>>]

(***************************************************************************)
(* draw_nuclide on its own: every decay-mode list of at most MaxModes      *)
(* entries over decay_entries, under every setting of the flags            *)
(* draw_nuclide reads.  The particle-unstable half-lives are among the     *)
(* records of the main program.                                            *)
(***************************************************************************)
v_100 == <<"1", "0", "0">>
v_10  == <<"1", "0">>
v_5   == <<"5", ".", "0", "#">>
v_0   == <<"0">>
v_q   == <<"?">>

entry(mode, value) == [mode |-> mode, value |-> value]

\* Stable; alpha at 10, at an estimated 5.0 and at 0 per cent; beta-plus at
\* 10 per cent and with an unknown branching; proton; a cluster emission
\* with an unknown and with a zero branching; the unknown mode.
decay_entries ==
    {entry(m_is, v_100),
     entry(m_a, v_10), entry(m_a, v_5), entry(m_a, v_0),
     entry(m_bp, v_10), entry(m_bp, v_q),
     entry(m_p, v_10),
     entry(m_14c, v_q), entry(m_14c, v_0),
     entry(m_unknown, v_q)}

mode_lists(maxlen) == UNION {[1..k -> decay_entries] : k \in 0..maxlen}

draw_nuclides ==
    {[N |-> 1, Z |-> 1, decay_modes |-> l,
      half_life |-> [value |-> "1.5", extrapolated |-> "False"]] :
        l \in mode_lists(MaxModes)}

draw_args ==
    {[N |-> <<1, 1>>, Z |-> <<1, 1>>, names |-> n, halflives |-> h,
      magic |-> TRUE, numbers |-> TRUE, unknown |-> u] :
        n \in BOOLEAN, h \in BOOLEAN, u \in BOOLEAN}

no_nuclide == [N |-> 0, Z |-> 0, decay_modes |-> <<>>,
               half_life |-> [value |-> "?", extrapolated |-> "False"]]

no_result == nothing_drawn(None, <<>>, Unbound)

append_layers(ls, elems) == [k \in 1..4 |-> ls[k] \o elems[k]]

DrawInit ==
    /\ pc = "draw"
    /\ nuclide \in draw_nuclides
    /\ args \in draw_args
    /\ res = no_result
    /\ layers = no_layers
    /\ input = <<>>
    /\ data = <<>>
    /\ n_limits = <<None, None>>
    /\ z_limits = <<None, None>>
    /\ shape = <<>>
    /\ n_magic = <<>>
    /\ z_magic = <<>>
    /\ idx = 0
    /\ stdout = <<>>
    /\ exit_status = <<>>
    /\ outfile = "empty"
    /\ load_entered = FALSE

\* One call draw_nuclide(nuclide, layers, position, args).
DrawCall ==
    /\ pc = "draw"
    /\ res' = draw_nuclide(nuclide, <<0, 0>>, args)
    /\ layers' = append_layers(layers, res'.elems)
    /\ pc' = "drawn"
    /\ UNCHANGED <<args, input, data, n_limits, z_limits, shape, n_magic, z_magic,
                   idx, stdout, exit_status, outfile, load_entered, nuclide>>

DrawNext == DrawCall

SpecDraw == DrawInit /\ [][DrawNext]_vars

(***************************************************************************)
(* The input document and load_xml_nuclear_table.  A <nuclide> record is   *)
(*   [A, Z : attribute strings, sub_ok : the sub-fields NuclideXml needs   *)
(*    are all there, decay_modes, half_life].                              *)
(***************************************************************************)
\* What a record can hold besides its place on the chart: a stable isotope,
\* one with a cluster emission only, a proton-unstable one, one without
\* any decay mode.
main_kinds ==
    {[decay_modes |-> <<entry(m_is, v_100)>>,
      half_life |-> [value |-> "stable", extrapolated |-> "False"]],
     [decay_modes |-> <<entry(m_14c, v_q)>>,
      half_life |-> [value |-> "1.5", extrapolated |-> "False"]],
     [decay_modes |-> <<entry(m_p, v_10)>>,
      half_life |-> [value |-> "p-unstable", extrapolated |-> "False"]],
     [decay_modes |-> <<>>,
      half_life |-> [value |-> "1.5", extrapolated |-> "False"]]}

any_kind == CHOOSE k \in main_kinds : k.decay_modes # <<>>

xml_record(a, z, ok, k) ==
    [A |-> a, Z |-> z, sub_ok |-> ok,
     decay_modes |-> k.decay_modes, half_life |-> k.half_life]

\* Well-formed records at every (N, Z) of the model, records that lack a
\* sub-field, and a record whose Z attribute is no integer.
xml_records ==
    {xml_record(IntToStr(n + z), IntToStr(z), TRUE, k) :
        n \in 1..MaxN, z \in 1..MaxZ, k \in main_kinds}
    \cup {xml_record(IntToStr(n + z), IntToStr(z), FALSE, any_kind) :
        n \in 1..MaxN, z \in 1..MaxZ}
    \cup {xml_record(<<"2">>, <<"x">>, TRUE, any_kind)}

n_ranges == {<<1, MaxN>>, <<1, 2>>, <<MaxN, 1>>}
z_ranges == {<<1, MaxZ>>, <<1, 2>>, <<MaxZ, 1>>}

main_args ==
    {[N |-> n, Z |-> z, names |-> TRUE, halflives |-> TRUE,
      magic |-> m, numbers |-> u, unknown |-> TRUE] :
        n \in n_ranges, z \in z_ranges, m \in BOOLEAN, u \in BOOLEAN}

\* NuclideXml(Z, A, nuclide): the constructor of the Nuclide module; it
\* raises (ValueError or LookupError) on a record that lacks a sub-field.
NuclideXml(Z, A, rec) ==
    [ok |-> rec.sub_ok,
     nuclide |-> [N |-> A - Z, Z |-> Z, decay_modes |-> rec.decay_modes,
                  half_life |-> rec.half_life]]

\* Lines 130-131: the record lies inside the requested window.
in_window(N, Z, n_range, z_range) ==
    /\ n_range[1] <= N /\ N <= n_range[2]
    /\ z_range[1] <= Z /\ Z <= z_range[2]

\* Lines 136-143, one axis.
widen(limits, v) ==
    <<IF v < limits[1] THEN v ELSE limits[1], IF v > limits[2] THEN v ELSE limits[2]>>

\* Lines 125-148: one iteration of the loop over the <nuclide> elements.
\* err: the import error printed, or None.
load_one(rec, n_range, z_range, nl, zl, d) ==
    LET a == PyInt(rec.A)
        z == PyInt(rec.Z)
        N == a.val - z.val
        Z == z.val
        made == NuclideXml(Z, a.val, rec)
    IN  IF ~a.ok \/ ~z.ok
        THEN [n_limits |-> nl, z_limits |-> zl, data |-> d, err |-> "ValueError"]
        ELSE IF ~in_window(N, Z, n_range, z_range)
        THEN [n_limits |-> nl, z_limits |-> zl, data |-> d, err |-> None]
        ELSE IF ~made.ok
        THEN [n_limits |-> widen(nl, N), z_limits |-> widen(zl, Z), data |-> d,
              err |-> "LookupError"]
        ELSE [n_limits |-> widen(nl, N), z_limits |-> widen(zl, Z),
              data |-> Append(d, made.nuclide), err |-> None]

(***************************************************************************)
(* The main program after the load: canvas size, occupancy grid, magic     *)
(* spans, magic lines and axis numbers.                                    *)
(***************************************************************************)
\* Lines 559-560.
size_of(nl, zl) ==
    <<(nl[2] - nl[1] + 2) * SIZE_FIELD + SIZE_GAP,
      (zl[2] - zl[1] + 2) * SIZE_FIELD + SIZE_GAP>>

\* Lines 568-573: shape[n][z] = False over the tight extrema (an empty
\* range gives an empty list).
new_shape(nl, zl) ==
    [n \in 1..(nl[2] - nl[1] + 1) |-> [z \in 1..(zl[2] - zl[1] + 1) |-> FALSE]]

\* Lines 580-585 (and 586-591 with N and Z exchanged): the span kept for
\* the magic value key after an isotope at other on the orthogonal axis.
magic_update(magic, key, other) ==
    IF key \notin MAGIC_NUMBERS THEN magic
    ELSE IF key \in DOMAIN magic
    THEN IF magic[key][2] < other
         THEN [magic EXCEPT ![key] = <<magic[key][1], other>>]
         ELSE magic
    ELSE (key :> <<other, other>>) @@ magic

\* Lines 596-597.
position_of(N, Z, nl, zl) ==
    <<(N - nl[1] + 1) * SIZE_FIELD + SIZE_GAP,
      size_of(nl, zl)[2] - (Z - zl[1] + 2) * SIZE_FIELD>>

RECURSIVE SortedSeq(_)
\* The elements of a finite set of integers in ascending order.
SortedSeq(S) == IF S = {} THEN <<>> ELSE <<Min(S)>> \o SortedSeq(S \ {Min(S)})

RECURSIVE Flatten(_)
Flatten(ss) == IF ss = <<>> THEN <<>> ELSE Head(ss) \o Flatten(Tail(ss))

line(name, x1, y1, x2, y2) ==
    [tag |-> "line", id |-> name, x1 |-> x1, y1 |-> y1, x2 |-> x2, y2 |-> y2]

\* Lines 444-464: the lines appended to layers[2]; SIZE_GAP / 2 is 1.  The
\* keys of each dictionary are taken in ascending order.
draw_magic_lines(nm, zm, nl, zl, size) ==
    LET n_lines(N) ==
            LET y1 == size[2] - (nm[N][2] - zl[1] + 2) * SIZE_FIELD - 1
                y2 == size[2] - (nm[N][1] - zl[1] + 1) * SIZE_FIELD - 1
                xa == (N - nl[1] + 1) * SIZE_FIELD + 1
                xb == (N - nl[1] + 2) * SIZE_FIELD + 1
            IN  <<line(<<N, "n0">>, xa, y1, xa, y2), line(<<N, "n1">>, xb, y1, xb, y2)>>
        z_lines(Z) ==
            LET x1 == (zm[Z][1] - nl[1] + 1) * SIZE_FIELD + 1
                x2 == (zm[Z][2] - nl[1] + 2) * SIZE_FIELD + 1
                ya == size[2] - (Z - zl[1] + 2) * SIZE_FIELD - 1
                yb == size[2] - (Z - zl[1] + 1) * SIZE_FIELD - 1
            IN  <<line(<<Z, "z0">>, x1, ya, x2, ya), line(<<Z, "z1">>, x1, yb, x2, yb)>>
        nk == SortedSeq(DOMAIN nm)
        zk == SortedSeq(DOMAIN zm)
    IN  Flatten([i \in 1..Len(nk) |-> n_lines(nk[i])])
        \o Flatten([i \in 1..Len(zk) |-> z_lines(zk[i])])

RECURSIVE first_scan(_, _, _)
\* Lines 470-472 (and 480-482): while not(cells[first]) and first < limit:
\* first += 1, over the cells of one column or row.  cells[first] is read
\* before first is compared with limit; reading past the list raises
\* IndexError.  first is a Python index.
first_scan(cells, first, limit) ==
    IF first >= Len(cells) THEN [err |-> TRUE, first |-> first]
    ELSE IF ~cells[first + 1] /\ first < limit
    THEN first_scan(cells, first + 1, limit)
    ELSE [err |-> FALSE, first |-> first]

\* Line 468: the columns that get a number.
numbered_n(n, nl) == (n + nl[1]) % 2 = 0 /\ n + nl[1] > 0

\* Line 478: the rows that get a number.
numbered_z(z, zl) == (z + (zl[1] % 2)) % 2 = 0 /\ z + zl[1] > 0

RECURSIVE labels_until_error(_)
\* The labels of a sequence of scans up to the first scan that raised.
labels_until_error(scans) ==
    IF scans = <<>> THEN [err |-> FALSE, elems |-> <<>>]
    ELSE IF Head(scans).err THEN [err |-> TRUE, elems |-> <<>>]
    ELSE LET rest == labels_until_error(Tail(scans))
         IN  [err |-> rest.err,
              elems |-> <<[tag |-> "text", role |-> Head(scans).role,
                           text |-> Head(scans).label,
                           first |-> Head(scans).first]>> \o rest.elems]

\* Lines 466-486: the texts appended to layers[3], each with the index the
\* scan stopped at (its pixel position is a function of it), and whether
\* an IndexError left the function.
draw_numbers(sh, nl, zl) ==
    LET nspan == nl[2] - nl[1] + 1
        zspan == zl[2] - zl[1] + 1
        ns == SortedSeq({n \in 0..(nspan - 1) : numbered_n(n, nl)})
        zs == SortedSeq({z \in 0..(zspan - 1) : numbered_z(z, zl)})
        n_scan(n) == LET r == first_scan(sh[n + 1], 0, zspan)
                     IN  [err |-> r.err, first |-> r.first, role |-> "n_number",
                          label |-> n + nl[1]]
        z_scan(z) == LET r == first_scan([k \in 1..Len(sh) |-> sh[k][z + 1]], 0, nspan)
                     IN  [err |-> r.err, first |-> r.first, role |-> "z_number",
                          label |-> z + zl[1]]
    IN  labels_until_error([i \in 1..Len(ns) |-> n_scan(ns[i])]
                           \o [i \in 1..Len(zs) |-> z_scan(zs[i])])

(***************************************************************************)
(* The main program, lines 489-607.  pc is the place the run has reached;  *)
(* outfile is "empty" from the start (argparse opens it for writing while  *)
(* it parses the command line) and "written" after line 607; exit_status   *)
(* is empty while the program runs, <<0>> after exit() or a normal end     *)
(* and <<1>> after an uncaught exception.                                  *)
(***************************************************************************)
Init ==
    /\ pc = "start"
    /\ args \in main_args
    /\ input = <<>>
    /\ data = <<>>
    /\ n_limits = <<None, None>>
    /\ z_limits = <<None, None>>
    /\ shape = <<>>
    /\ n_magic = <<>>
    /\ z_magic = <<>>
    /\ idx = 0
    /\ layers = no_layers
    /\ stdout = <<>>
    /\ exit_status = <<>>
    /\ outfile = "empty"
    /\ load_entered = FALSE
    /\ nuclide = no_nuclide
    /\ res = no_result

\* Lines 512-520: a range with low > high prints two lines and calls exit().
RejectRange ==
    /\ pc = "start"
    /\ args.N[1] > args.N[2] \/ args.Z[1] > args.Z[2]
    /\ stdout' = stdout \o <<IF args.N[1] > args.N[2] THEN "Wrong N range"
                             ELSE "Wrong Z range", "Try -h for more information">>
    /\ exit_status' = <<0>>
    /\ pc' = "exited"
    /\ UNCHANGED <<args, input, data, n_limits, z_limits, shape, n_magic, z_magic,
                   idx, layers, outfile, load_entered, nuclide, res>>

\* Lines 524-553 and 111-118: the document and its four layers are made,
\* load_xml_nuclear_table is entered, sets the limits opposite and parses
\* the data file.
EnterLoad ==
    /\ pc = "start"
    /\ args.N[1] <= args.N[2] /\ args.Z[1] <= args.Z[2]
    /\ load_entered' = TRUE
    /\ n_limits' = <<args.N[2], args.N[1]>>
    /\ z_limits' = <<args.Z[2], args.Z[1]>>
    /\ pc' = "load"
    /\ UNCHANGED <<args, input, data, shape, n_magic, z_magic, idx, layers, stdout,
                   exit_status, outfile, nuclide, res>>

\* Lines 119-121: the data file does not parse and the function returns
\* None, so no data set exists (data stays empty); the loop of line 577
\* over None raises TypeError, which nothing catches.
ParseError ==
    /\ pc = "load"
    /\ input = <<>>
    /\ shape' = new_shape(n_limits, z_limits)
    /\ stdout' = stdout \o <<"import error", "Traceback: TypeError">>
    /\ exit_status' = <<1>>
    /\ pc' = "crashed"
    /\ UNCHANGED <<args, input, data, n_limits, z_limits, n_magic, z_magic, idx,
                   layers, outfile, load_entered, nuclide, res>>

\* Lines 124-148: the next <nuclide> element of the document.
LoadRecord ==
    /\ pc = "load"
    /\ Len(input) < MaxRecords
    /\ \E rec \in xml_records :
         LET r == load_one(rec, args.N, args.Z, n_limits, z_limits, data) IN
         /\ input' = Append(input, rec)
         /\ n_limits' = r.n_limits
         /\ z_limits' = r.z_limits
         /\ data' = r.data
         /\ stdout' = IF r.err = None THEN stdout ELSE Append(stdout, "import error")
    /\ UNCHANGED <<pc, args, shape, n_magic, z_magic, idx, layers, exit_status,
                   outfile, load_entered, nuclide, res>>

\* Lines 149 and 559-576: the document is exhausted, the data set is
\* returned, the canvas is sized and the occupancy grid is made.
LoadReturn ==
    /\ pc = "load"
    /\ shape' = new_shape(n_limits, z_limits)
    /\ n_magic' = <<>>
    /\ z_magic' = <<>>
    /\ idx' = 1
    /\ pc' = "loop"
    /\ UNCHANGED <<args, input, data, n_limits, z_limits, layers, stdout,
                   exit_status, outfile, load_entered, nuclide, res>>

\* Lines 577-601: the body of the main loop for data[idx].
LoopBody ==
    /\ pc = "loop"
    /\ idx <= Len(data)
    /\ LET nuc == data[idx]
           N == nuc.N
           Z == nuc.Z
           r == draw_nuclide(nuc, position_of(N, Z, n_limits, z_limits), args)
       IN  /\ n_magic' = magic_update(n_magic, N, Z)
           /\ z_magic' = magic_update(z_magic, Z, N)
           /\ shape' = [shape EXCEPT ![N - n_limits[1] + 1][Z - z_limits[1] + 1] = TRUE]
           /\ nuclide' = nuc
           /\ res' = r
           /\ layers' = append_layers(layers, r.elems)
           /\ stdout' = IF r.outcome = "IndexError"
                        THEN Append(stdout, "IndexError: nuclide") ELSE stdout
    /\ idx' = idx + 1
    /\ UNCHANGED <<pc, args, input, data, n_limits, z_limits, exit_status, outfile,
                   load_entered>>

\* Lines 602-603: the loop is over; the magic lines are drawn if asked for.
MagicLines ==
    /\ pc = "loop"
    /\ idx > Len(data)
    /\ layers' = IF args.magic
                 THEN [layers EXCEPT ![3] = @ \o draw_magic_lines(
                          n_magic, z_magic, n_limits, z_limits,
                          size_of(n_limits, z_limits))]
                 ELSE layers
    /\ pc' = "numbers"
    /\ UNCHANGED <<args, input, data, n_limits, z_limits, shape, n_magic, z_magic,
                   idx, stdout, exit_status, outfile, load_entered, nuclide, res>>

\* Lines 604-605: the axis numbers are drawn if asked for; an IndexError of
\* draw_numbers is caught nowhere and ends the program.
Numbers ==
    /\ pc = "numbers"
    /\ LET r == draw_numbers(shape, n_limits, z_limits) IN
       IF args.numbers /\ r.err
       THEN /\ pc' = "crashed"
            /\ exit_status' = <<1>>
            /\ stdout' = Append(stdout, "Traceback: IndexError")
            /\ UNCHANGED layers
       ELSE /\ pc' = "write"
            /\ layers' = IF args.numbers THEN [layers EXCEPT ![4] = @ \o r.elems]
                         ELSE layers
            /\ UNCHANGED <<stdout, exit_status>>
    /\ UNCHANGED <<args, input, data, n_limits, z_limits, shape, n_magic, z_magic,
                   idx, outfile, load_entered, nuclide, res>>

\* Line 607: the document is written and the program ends.
Write ==
    /\ pc = "write"
    /\ outfile' = "written"
    /\ exit_status' = <<0>>
    /\ pc' = "done"
    /\ UNCHANGED <<args, input, data, n_limits, z_limits, shape, n_magic, z_magic,
                   idx, layers, stdout, load_entered, nuclide, res>>

Next ==
    \/ RejectRange
    \/ EnterLoad
    \/ ParseError
    \/ LoadRecord
    \/ LoadReturn
    \/ LoopBody
    \/ MagicLines
    \/ Numbers
    \/ Write

Spec == Init /\ [][Next]_vars

(***************************************************************************)
(* Properties of the main program (specification Spec).                    *)
(***************************************************************************)
range_invalid == args.N[1] > args.N[2] \/ args.Z[1] > args.Z[2]

\* C1: when the requested N-range or Z-range has low > high, the program
\* prints a diagnostic and terminates before any isotope data is read
\* (load_xml_nuclear_table is never entered), with a non-zero exit status
\* and without producing an output document.
C1_InvalidRangeRejected ==
    range_invalid =>
        /\ pc \in {"start", "exited"}
        /\ ~load_entered
        /\ outfile # "written"
        /\ pc = "exited" => stdout # <<>> /\ exit_status \notin {<<>>, <<0>>}

RECURSIVE well_formed_in_window(_, _, _)
\* The nuclides of the records of a document that are well formed (integer
\* A and Z, every sub-field there) and lie inside the window, in order.
well_formed_in_window(records, n_range, z_range) ==
    IF records = <<>> THEN <<>>
    ELSE LET rec == Head(records)
             rest == well_formed_in_window(Tail(records), n_range, z_range)
             a == PyInt(rec.A)
             z == PyInt(rec.Z)
         IN  IF /\ a.ok /\ z.ok /\ rec.sub_ok
                /\ in_window(a.val - z.val, z.val, n_range, z_range)
             THEN <<[N |-> a.val - z.val, Z |-> z.val, decay_modes |-> rec.decay_modes,
                     half_life |-> rec.half_life]>> \o rest
             ELSE rest

Ns(d) == {d[i].N : i \in 1..Len(d)}
Zs(d) == {d[i].Z : i \in 1..Len(d)}

\* C2: once load_xml_nuclear_table has retained at least one record, the
\* data set is exactly the well-formed records inside the requested window
\* and n_limits / z_limits are the minimum and maximum N and Z over the
\* records of the data set: a record outside the window or one reported as
\* malformed never changes the extrema.
C2_TightExtrema ==
    (load_entered /\ Len(data) >= 1) =>
        /\ data = well_formed_in_window(input, args.N, args.Z)
        /\ n_limits = <<Min(Ns(data)), Max(Ns(data))>>
        /\ z_limits = <<Min(Zs(data)), Max(Zs(data))>>

\* C3: draw_numbers never crashes: for every even N (and every even Z)
\* inside the tight extrema whose column (row) of the occupancy grid has no
\* occupied cell, the scan stops at the edge of the grid without reading a
\* cell outside it and without raising an error.  Stated for the documents
\* all of whose records have their sub-fields, where the extrema are tight,
\* and for the runs that drew every retained isotope.
C3_NumbersNeverCrash ==
    ((\A i \in 1..Len(input) : input[i].sub_ok) /\ Len(layers[1]) = Len(data)) =>
        /\ pc = "numbers" => ~draw_numbers(shape, n_limits, z_limits).err
        /\ pc = "crashed" => stdout[Len(stdout)] # "Traceback: IndexError"

\* C10: after the main loop, for every magic N present n_magic[N] is
\* [min Z, max Z] over all retained isotopes with that N, and for every
\* magic Z present z_magic[Z] is [min N, max N] over all retained isotopes
\* with that Z, in any input order.  Stated for the runs that drew every
\* retained isotope.
C10_MagicSpans ==
    (pc \in {"numbers", "write", "done"} /\ Len(layers[1]) = Len(data)) =>
        /\ DOMAIN n_magic = Ns(data) \cap MAGIC_NUMBERS
        /\ DOMAIN z_magic = Zs(data) \cap MAGIC_NUMBERS
        /\ \A N \in Ns(data) \cap MAGIC_NUMBERS :
             LET zs == {data[i].Z : i \in {j \in 1..Len(data) : data[j].N = N}}
             IN  n_magic[N] = <<Min(zs), Max(zs)>>
        /\ \A Z \in Zs(data) \cap MAGIC_NUMBERS :
             LET ns == {data[i].N : i \in {j \in 1..Len(data) : data[j].Z = Z}}
             IN  z_magic[Z] = <<Min(ns), Max(ns)>>

(***************************************************************************)
(* Properties of draw_nuclide (specification SpecDraw).  nuclide is the    *)
(* isotope as it is passed in, res.decay_modes its list when the call is   *)
(* over.  A Python index i of the claims is the index i + 1 here.          *)
(***************************************************************************)
basic_indices(decay_modes) ==
    {i \in 1..Len(decay_modes) : decay_modes[i].mode \in basic_decay_modes}

unknown_shown == /\ Len(nuclide.decay_modes) > 0
                 /\ nuclide.decay_modes[1].mode = m_unknown
                 /\ args.unknown

\* C4, as the claim states it: an isotope whose decay-mode list has no
\* basic mode at any index gets no element in any of the four layers, for
\* every setting of the display flags.
C4_NoBasicDrawsNothing ==
    (pc = "drawn" /\ basic_indices(nuclide.decay_modes) = {}) => layers = no_layers

\* C4, amended: an isotope whose decay-mode list has no basic mode at any
\* index, and whose first mode is not the unknown code with show-unknown
\* enabled, gets no element in any of the four layers.
C4_NoBasicNotUnknownDrawsNothing ==
    (pc = "drawn" /\ basic_indices(nuclide.decay_modes) = {} /\ ~unknown_shown)
        => layers = no_layers

\* A list of two non-basic modes starting with the unknown code went
\* through draw_nuclide with show-unknown off and names and half-lives on.
C4_Witness ==
    /\ pc = "drawn"
    /\ Len(nuclide.decay_modes) >= 2
    /\ basic_indices(nuclide.decay_modes) = {}
    /\ nuclide.decay_modes[1].mode = m_unknown
    /\ ~args.unknown /\ args.names /\ args.halflives
    /\ nuclide.half_life.value = "1.5"
    /\ layers = no_layers

\* The colour a marker taken from a list entry has.
marker_color(e) == IF cluster_re(e.mode) THEN COLORS[m_cluster] ELSE COLORS[e.mode]

\* C5: when the list has a basic mode (and its first mode is not the
\* unknown code with show-unknown enabled) the primary colour is the COLORS
\* entry of the earliest basic mode; that entry and the entry at index 0 are
\* exchanged (nothing changes when they are the same), every other entry
\* keeps its index, and the markers and the text are taken from the
\* reordered list.
C5_EarliestBasicIsPrimary ==
    LET orig == nuclide.decay_modes
        after == res.decay_modes
    IN  (pc = "drawn" /\ basic_indices(orig) # {} /\ ~unknown_shown) =>
        LET e == Min(basic_indices(orig)) IN
        /\ res.outcome \in {"drawn", "return"}
        /\ res.primary_color = COLORS[orig[e].mode]
        /\ Len(after) = Len(orig)
        /\ after[1] = orig[e]
        /\ after[e] = orig[1]
        /\ \A j \in 1..Len(orig) : j \notin {1, e} => after[j] = orig[j]
        /\ \A k \in 1..Len(layers[2]) :
             layers[2][k].fill = marker_color(after[layers[2][k].from])
        /\ \A k \in 1..Len(layers[4]) :
             (layers[4][k].role = "half_life" /\ res.primary_color = COLORS[m_is])
                 => layers[4][k].text = after[1].value

\* The earliest basic mode was at Python index 2, behind two non-basic
\* modes, and the isotope was drawn with a secondary marker.
C5_Witness ==
    /\ pc = "drawn"
    /\ ~unknown_shown
    /\ basic_indices(nuclide.decay_modes) # {}
    /\ Min(basic_indices(nuclide.decay_modes)) = 3
    /\ res.outcome = "drawn"
    /\ Len(layers[2]) >= 1

\* The branching value of a list entry parses to exactly 5.0.
is_five(e) == LET v == PyFloat(Strip(e.value, "#")) IN v.ok /\ v.num = 5 * v.den

\* C6: a decay mode whose branching value is exactly 5.0 never yields a
\* large secondary marker: whenever a large triangle is emitted, neither
\* its colour nor its size was taken from an entry whose value is 5.0.
C6_FiveIsNotLarge ==
    pc = "drawn" =>
        \A k \in 1..Len(layers[2]) :
            layers[2][k].size = "large" =>
                /\ ~is_five(res.decay_modes[layers[2][k].from])
                /\ ~is_five(res.decay_modes[res.secondary.size_idx])

\* A basic mode with the value 5.0 at Python index 1 was scanned, under a
\* primary that is not stable, and a later entry gave a large triangle.
C6_Witness ==
    /\ pc = "drawn"
    /\ Len(res.decay_modes) >= 3
    /\ is_five(res.decay_modes[2])
    /\ res.decay_modes[2].mode \in basic_decay_modes
    /\ res.primary_color # COLORS[m_is]
    /\ \E k \in 1..Len(layers[2]) : layers[2][k].size = "large"

\* C7: a secondary or tertiary marker taken from a decay mode that matches
\* the cluster pattern is a small triangle in the top-right corner filled
\* with the cluster colour, whatever the entry's branching value and
\* whatever the primary and the other marker's colours.
C7_ClusterMarker ==
    pc = "drawn" =>
        \A k \in 1..Len(layers[2]) :
            cluster_re(res.decay_modes[layers[2][k].from].mode) =>
                /\ layers[2][k].size = "small"
                /\ layers[2][k].corner = "rt"
                /\ layers[2][k].fill = COLORS[m_cluster]

\* Under a stable primary, the secondary marker came from a cluster entry
\* with an unparseable value and the tertiary marker from a cluster entry
\* with the value 0.
C7_Witness ==
    /\ pc = "drawn"
    /\ res.primary_color = COLORS[m_is]
    /\ Len(layers[2]) = 2
    /\ layers[2][1].from # layers[2][2].from
    /\ cluster_re(res.decay_modes[layers[2][1].from].mode)
    /\ cluster_re(res.decay_modes[layers[2][2].from].mode)
    /\ ~PyFloat(Strip(res.decay_modes[layers[2][1].from].value, "#")).ok
    /\ PyFloat(Strip(res.decay_modes[layers[2][2].from].value, "#")).num = 0
    /\ PyFloat(Strip(res.decay_modes[layers[2][2].from].value, "#")).ok

\* C8: the secondary marker is decided by the first decay mode at index
\* >= 1 that is a basic mode with a numeric branching value or a cluster
\* match: its colour is that entry's and its size follows from that entry's
\* value alone (large if > 5 and the primary is not stable, small if > 0
\* otherwise, a cluster always small); later entries never change it.
\* Stated for the lists whose first such entry gives a marker.
C8_FirstMatchDecidesSecondary ==
    (pc = "drawn" /\ res.outcome = "drawn") =>
        LET modes == res.decay_modes
            value(i) == PyFloat(Strip(modes[i].value, "#"))
            matches == {i \in 2..Len(modes) :
                           \/ modes[i].mode \in basic_decay_modes /\ value(i).ok
                           \/ cluster_re(modes[i].mode)}
        IN  matches # {} =>
            LET f == Min(matches)
                decided ==
                    IF cluster_re(modes[f].mode) THEN "small"
                    ELSE IF /\ value(f).num > 5 * value(f).den
                            /\ res.primary_color # COLORS[m_is] THEN "large"
                    ELSE IF value(f).num > 0 THEN "small"
                    ELSE None
            IN  decided # None =>
                    /\ res.secondary.size = decided
                    /\ res.secondary.color = marker_color(modes[f])

\* The indices >= 2 (Python) of the modes that are basic or match the
\* cluster pattern.
structural(decay_modes) ==
    {i \in 3..Len(decay_modes) :
        \/ decay_modes[i].mode \in basic_decay_modes
        \/ cluster_re(decay_modes[i].mode)}

alpha_or_proton == {COLORS[m_a], COLORS[m_p]}

\* The corner the decision table gives a marker: `others` are the colours
\* the beta-plus rule looks at (the primary colour, and for a tertiary
\* marker the secondary colour as well).
table_corner(fill, others) ==
    IF fill = COLORS[m_a] THEN "lt"
    ELSE IF fill = COLORS[m_bp]
         THEN IF others \cap alpha_or_proton = {} THEN "lt" ELSE "rb"
    ELSE IF fill = COLORS[m_cluster] THEN "rt"
    ELSE "rb"

\* C11: every emitted marker sits in the corner of the decision table: an
\* alpha-coloured marker top-left; a beta-plus/electron-capture-coloured
\* marker top-left unless the primary colour is alpha or proton (for the
\* tertiary marker: unless the primary or the secondary colour is alpha or
\* proton), then bottom-right; a cluster-coloured marker top-right; any
\* other colour bottom-right.  Stated for the draws whose markers come
\* from different entries of the decay-mode list.
C11_CornerTable ==
    (/\ pc = "drawn"
     /\ \A j, k \in 1..Len(layers[2]) :
            j # k => layers[2][j].from # layers[2][k].from) =>
        \A k \in 1..Len(layers[2]) :
            LET el == layers[2][k]
                others == IF el.id[2] = 2
                          THEN {res.primary_color, res.secondary.color}
                          ELSE {res.primary_color}
            IN  el.corner = table_corner(el.fill, others)

\* The entries at Python index >= 1 the secondary scan reacts to: a basic
\* mode with a numeric branching value, or a cluster match.
secondary_matches(decay_modes) ==
    {i \in 2..Len(decay_modes) :
        \/ /\ decay_modes[i].mode \in basic_decay_modes
           /\ PyFloat(Strip(decay_modes[i].value, "#")).ok
        \/ cluster_re(decay_modes[i].mode)}

\* C12: when draw_nuclide emits both a secondary and a tertiary marker, the
\* two markers are derived from two different entries of the decay-mode
\* list.  Stated for the lists whose secondary marker comes from the first
\* entry the secondary scan reacts to.
C12_MarkersFromDifferentEntries ==
    (/\ pc = "drawn"
     /\ Len(layers[2]) = 2
     /\ layers[2][1].from = Min(secondary_matches(res.decay_modes))
     /\ res.secondary.size_idx = layers[2][1].from) =>
        layers[2][1].from # layers[2][2].from

\* The isotopes of the retained data that have a primary rectangle in
\* layer 0, as <<N, Z>> pairs (the rectangle's id holds Z and A = N + Z).
rendered ==
    {<<layers[1][k].id[1][2] - layers[1][k].id[1][1], layers[1][k].id[1][1]>> :
        k \in 1..Len(layers[1])}

\* C13: after the main loop the bookkeeping behind axis numbers and magic
\* lines reflects only rendered isotopes: every occupied cell of the
\* occupancy grid, and both ends of every n_magic / z_magic span, belong to
\* an isotope with a primary rectangle in layer 0; an isotope draw_nuclide
\* skipped marks no cell and contributes to no span.  Stated for the data
\* sets in which every isotope has at least one decay mode.
C13_BookkeepingOnlyRendered ==
    (/\ \/ pc = "loop" /\ idx > Len(data)
        \/ pc \in {"numbers", "write", "done"}
     /\ \A i \in 1..Len(data) : Len(data[i].decay_modes) > 0) =>
        /\ \A n \in 1..Len(shape) : \A z \in 1..Len(shape[n]) :
               shape[n][z] =>
                   <<n + n_limits[1] - 1, z + z_limits[1] - 1>> \in rendered
        /\ \A N \in DOMAIN n_magic :
               /\ <<N, n_magic[N][1]>> \in rendered
               /\ <<N, n_magic[N][2]>> \in rendered
        /\ \A Z \in DOMAIN z_magic :
               /\ <<z_magic[Z][1], Z>> \in rendered
               /\ <<z_magic[Z][2], Z>> \in rendered

====
